---- MODULE Spec2Model ----
(***************************************************************************)
(* Model of sci-scraper: the year scheduler of cmd/sci-scraper/main.go     *)
(* (sequential path and worker pool with retries) and scraper.ScrapeYear   *)
(* (fetch, table extraction, output file).                                 *)
(*                                                                         *)
(* A text is a string; a page is a sequence of tables, a table a sequence  *)
(* of rows (tr), a row its th cells, its td cells and the href attributes  *)
(* of its anchors, all in document order.                                  *)
(*                                                                         *)
(* Spec is the whole program, SpecPair a sequential run followed by a      *)
(* concurrent run on the same answers, SpecPool the worker pool alone on   *)
(* lists longer than the pool is wide, SpecPoolFair the same under fair    *)
(* scheduling, and SpecScan the extraction of one page, callback by        *)
(* callback.                                                               *)
(***************************************************************************)
EXTENDS Integers, Sequences, FiniteSets, TLC

\* ------------------------------------------------------------------ bounds
MaxC == 2          \* largest -concurrency value explored
MaxRetries == 2    \* largest -retries value explored
MaxYears == 2      \* longest list of years explored
MinYear == 2016    \* ScrapeYear: first supported year
MaxYear == 2025    \* ScrapeYear: last supported year
MaxNumericLen == 6 \* isNumericShort: longest serial number
SerialMinCols == 5 \* fewest td cells of a row with a serial column
StatusOK == 200    \* the only accepted HTTP status

\* ------------------------------------------------------------ text helpers
\* A text is a TLA+ string; Ch(s, i) is its i-th character (1-based).
Ch(s, i) == SubSeq(s, i, i)

Digits == {"0", "1", "2", "3", "4", "5", "6", "7", "8", "9"}
Spaces == {" ", "\t", "\n"}
UpperCase == "ABCDEFGHIJKLMNOPQRSTUVWXYZ"
LowerCase == "abcdefghijklmnopqrstuvwxyz"
Letters == {Ch(UpperCase, i) : i \in 1..Len(UpperCase)}
               \cup {Ch(LowerCase, i) : i \in 1..Len(LowerCase)}

LowerChar(c) ==
    IF \E i \in 1..Len(UpperCase) : Ch(UpperCase, i) = c
    THEN Ch(LowerCase, CHOOSE i \in 1..Len(UpperCase) : Ch(UpperCase, i) = c)
    ELSE c

\* strings.ToLower
RECURSIVE ToLower(_)
ToLower(s) ==
    IF s = "" THEN ""
    ELSE LowerChar(Ch(s, 1)) \o ToLower(SubSeq(s, 2, Len(s)))

\* strings.TrimSpace
TrimSpace(s) ==
    LET keep == {i \in 1..Len(s) : Ch(s, i) \notin Spaces}
    IN  IF keep = {} THEN ""
        ELSE LET lo == CHOOSE i \in keep : \A k \in keep : i <= k
                 hi == CHOOSE i \in keep : \A k \in keep : k <= i
             IN  SubSeq(s, lo, hi)

\* strings.Contains
Contains(s, sub) ==
    \E i \in 0..(Len(s) - Len(sub)) : SubSeq(s, i + 1, i + Len(sub)) = sub

\* strings.HasSuffix
HasSuffix(s, suf) ==
    /\ Len(suf) <= Len(s)
    /\ SubSeq(s, Len(s) - Len(suf) + 1, Len(s)) = suf

\* strings.HasPrefix (used by the URL helpers)
HasPrefix(s, pre) ==
    /\ Len(pre) <= Len(s)
    /\ SubSeq(s, 1, Len(pre)) = pre

\* isNumericShort(s)
isNumericShort(s) ==
    LET t == TrimSpace(s)
    IN  /\ t # ""
        /\ Len(t) <= MaxNumericLen
        /\ \A i \in 1..Len(t) : Ch(t, i) \in Digits

\* ------------------------------------------------------------- URL helpers
\* resp.Request.URL, the base that relative links are resolved against: the
\* requested page URL, whose query (the year) no resolved reference keeps.
BaseOrigin == "https://www.sci.gov.in"
BaseDir == "/landmark-judgment-summaries/"

SchemeChars == Letters \cup Digits \cup {"+", "-", "."}

\* url.Parse(href).IsAbs(): the reference starts with a scheme, that is a
\* letter followed by scheme characters up to a colon.
IsAbs(href) ==
    \E n \in 2..Len(href) :
        /\ Ch(href, n) = ":"
        /\ Ch(href, 1) \in Letters
        /\ \A i \in 1..(n - 1) : Ch(href, i) \in SchemeChars

\* url.Parse fails on ASCII control characters inside the reference, and on
\* a colon in the first path segment of a reference that has no scheme.
ParseFails(href) ==
    \/ \E i \in 1..Len(href) : Ch(href, i) \in {"\t", "\n"}
    \/ /\ ~IsAbs(href)
       /\ \E n \in 1..Len(href) :
             /\ Ch(href, n) = ":"
             /\ \A i \in 1..(n - 1) : Ch(href, i) \notin {"/", "?", "#"}

\* base.ResolveReference(u).String() for a reference without a scheme and
\* without dot segments: a network-path, an absolute-path, a query-only or a
\* relative-path reference (RFC 3986, section 5.2.2).
ResolveReference(href) ==
    IF HasPrefix(href, "//") THEN "https:" \o href
    ELSE IF HasPrefix(href, "/") THEN BaseOrigin \o href
    ELSE IF HasPrefix(href, "?") THEN BaseOrigin \o BaseDir \o href
    ELSE BaseOrigin \o BaseDir \o href

\* resolve(href) of ScrapeYear
resolve(href) ==
    LET h == TrimSpace(href)
    IN  IF h = "" THEN ""
        ELSE IF ParseFails(h) THEN h
        ELSE IF IsAbs(h) THEN h
        ELSE ResolveReference(h)

\* --------------------------------------------------------------- the page
\* An anchor without href attribute, and one with it.
NoHref == [has |-> FALSE, href |-> ""]
Href(h) == [has |-> TRUE, href |-> h]

\* A row (tr): the texts of its th cells, the texts of its td cells and its
\* anchors, each in document order.
Row(th, td, a) == [th |-> th, td |-> td, a |-> a]

\* A table: whether it lies inside .landmark_judgment_summary, and its rows.
Table(landmark, rows) == [landmark |-> landmark, rows |-> rows]

\* type Judgment
Judgment(date, cause, subject, summary, pdf) ==
    [DateOfJudgment |-> date, CauseTitleCaseNo |-> cause, Subject |-> subject,
     JudgmentSummary |-> summary, PDFLink |-> pdf]

\* sel: the first landmark table, else the first table, else none (<<>>).
LocateTable(page) ==
    LET lm == {i \in 1..Len(page) : page[i].landmark}
    IN  IF lm # {} THEN <<page[CHOOSE i \in lm : \A k \in lm : i <= k]>>
        ELSE IF Len(page) > 0 THEN <<page[1]>>
        ELSE <<>>

\* HeaderRole, but with the case of "view" and "pdf" tried before "summary"
HeaderRolePdfFirst(text) ==
    LET lower == ToLower(text)
    IN  IF Contains(lower, "date") THEN "date"
        ELSE IF Contains(lower, "cause") \/ Contains(lower, "case")
                    \/ Contains(lower, "title") THEN "cause"
        ELSE IF Contains(lower, "subject") THEN "subject"
        ELSE IF Contains(lower, "view") \/ Contains(lower, "pdf") THEN "pdf"
        ELSE IF Contains(lower, "summary") THEN "summary"
        ELSE ""

\* The switch over a non-empty header text: the role of the first case that
\* matches, "" when none does.
HeaderRole(text) ==
    LET lower == ToLower(text)
    IN  IF Contains(lower, "date") THEN "date"
        ELSE IF Contains(lower, "cause") \/ Contains(lower, "case")
                    \/ Contains(lower, "title") THEN "cause"
        ELSE IF Contains(lower, "subject") THEN "subject"
        ELSE IF Contains(lower, "summary") THEN "summary"
        ELSE IF Contains(lower, "view") \/ Contains(lower, "pdf") THEN "pdf"
        ELSE ""

\* hasHeader: some th of the first row has non-empty trimmed text.
HasHeader(rows) ==
    /\ Len(rows) > 0
    /\ \E i \in 1..Len(rows[1].th) : TrimSpace(rows[1].th[i]) # ""

\* HeaderCell, but a role keeps the index of the first cell that got it
HeaderCellKeepFirst(map, i, h) ==
    LET text == TrimSpace(h)
        role == IF text = "" THEN "" ELSE HeaderRole(text)
    IN  IF role = "" \/ role \in DOMAIN map THEN map
        ELSE [r \in DOMAIN map \cup {role} |-> IF r = role THEN i ELSE map[r]]

\* The callback of the Each over the th cells, on cell i (0-based) with text
\* h: the headerMap it leaves.
HeaderCell(map, i, h) ==
    LET text == TrimSpace(h)
        role == IF text = "" THEN "" ELSE HeaderRole(text)
    IN  IF role = "" THEN map
        ELSE [r \in DOMAIN map \cup {role} |-> IF r = role THEN i ELSE map[r]]

\* headerMap after the Each over the th cells i..n of the first row: a
\* function from the roles found to the 0-based index of the cell, a later
\* cell of the same role replacing an earlier one.
RECURSIVE HeaderCells(_, _, _)
HeaderCells(ths, i, map) ==
    IF i > Len(ths) THEN map
    ELSE HeaderCells(ths, i + 1, HeaderCell(map, i - 1, ths[i]))

EmptyMap == [r \in {} |-> 0]

HeaderMap(rows) ==
    IF Len(rows) = 0 THEN EmptyMap ELSE HeaderCells(rows[1].th, 1, EmptyMap)

\* readBy, but by position alone
readByPositional(hmap, cols, key, pos) ==
    IF pos < Len(cols) THEN TrimSpace(cols[pos + 1]) ELSE ""

\* readBy(key, pos) over the td cells cols
readBy(hmap, cols, key, pos) ==
    IF key \in DOMAIN hmap /\ hmap[key] < Len(cols)
    THEN TrimSpace(cols[hmap[key] + 1])
    ELSE IF pos < Len(cols) THEN TrimSpace(cols[pos + 1])
    ELSE ""

\* Shift, but for a row of any width
ShiftAnyWidth(cols) ==
    IF Len(cols) >= 1 /\ isNumericShort(TrimSpace(cols[1])) THEN 1 ELSE 0

\* shift: 1 when the row has a leading serial column
Shift(cols) ==
    IF Len(cols) >= SerialMinCols /\ isNumericShort(TrimSpace(cols[1]))
    THEN 1 ELSE 0

\* Whether an anchor is a PDF link
IsPdfAnchor(a) ==
    /\ a.has
    /\ LET lh == ToLower(TrimSpace(a.href))
       IN  HasSuffix(lh, ".pdf") \/ Contains(lh, "view-pdf")
               \/ Contains(lh, "/view-pdf/")

\* PdfLink, but from the last anchor that matches
PdfLinkLast(anchors) ==
    LET hit == {i \in 1..Len(anchors) : IsPdfAnchor(anchors[i])}
    IN  IF hit = {} THEN ""
        ELSE resolve(anchors[CHOOSE i \in hit : \A k \in hit : k <= i].href)

\* pdf: the EachWithBreak over the anchors of the row
PdfLink(anchors) ==
    LET hit == {i \in 1..Len(anchors) : IsPdfAnchor(anchors[i])}
    IN  IF hit = {} THEN ""
        ELSE resolve(anchors[CHOOSE i \in hit : \A k \in hit : i <= k].href)

\* The record read from one data row
RowRecord(hmap, row) ==
    LET cols == row.td
        shift == Shift(cols)
    IN  Judgment(readBy(hmap, cols, "date", 0 + shift),
                 readBy(hmap, cols, "cause", 1 + shift),
                 readBy(hmap, cols, "subject", 2 + shift),
                 readBy(hmap, cols, "summary", 3 + shift),
                 PdfLink(row.a))

\* Retained, but for every record
RetainedAlways(j) == TRUE

\* The retention test of a record
Retained(j) ==
    \/ j.DateOfJudgment # ""
    \/ j.CauseTitleCaseNo # ""
    \/ j.Subject # ""
    \/ j.JudgmentSummary # ""
    \/ j.PDFLink # ""

\* Whether the Each over the rows skips row i (0-based)
SkipRow(rows, i) ==
    \/ i = 0 /\ HasHeader(rows)
    \/ Len(rows[i + 1].td) < 1

\* judgments after the rows i.. (0-based) of the table
RECURSIVE ExtractRows(_, _, _)
ExtractRows(rows, hmap, i) ==
    IF i >= Len(rows) THEN <<>>
    ELSE LET rest == ExtractRows(rows, hmap, i + 1)
             j == RowRecord(hmap, rows[i + 1])
         IN  IF SkipRow(rows, i) THEN rest
             ELSE IF Retained(j) THEN <<j>> \o rest
             ELSE rest

\* judgments: the records ScrapeYear extracts from a parsed page
Extract(page) ==
    LET found == LocateTable(page)
    IN  IF Len(found) = 0 THEN <<>>
        ELSE ExtractRows(found[1].rows, HeaderMap(found[1].rows), 0)

\* ---------------------------------------------------------- sample inputs
HeaderRow ==
    Row(<<"S.No", "Date of Judgment", "Cause Title", "Subject", "Summary", "View">>,
        <<>>, <<>>)

PageNoTable == <<>>
PageHeaderOnly == <<Table(TRUE, <<HeaderRow>>)>>
PageEmptyRows ==
    <<Table(TRUE, <<HeaderRow, Row(<<>>, <<" ", "", "\n", "", "", "">>, <<NoHref>>)>>)>>
PageOneRow ==
    <<Table(TRUE, <<HeaderRow,
        Row(<<>>, <<"1", "01-01-2016", " X vs Y ", "Constitutional", "Summary text", "">>,
            <<NoHref, Href("view-pdf/123")>>)>>)>>
PageTwoRows ==
    <<Table(FALSE, <<
        Row(<<>>, <<"007", "02-03-2017", "A vs B", "Tax", "First">>,
            <<Href("/docs/a.pdf")>>),
        Row(<<>>, <<"", "", "", "">>, <<>>),
        Row(<<>>, <<"04-05-2017", "C vs D", "Civil", "Second">>,
            <<Href("https://x.gov/A.PDF")>>)>>)>>

Pages == {PageNoTable, PageHeaderOnly, PageEmptyRows, PageOneRow, PageTwoRows}

\* The records of each sample page
Extracted == [p \in Pages |-> Extract(p)]

\* What the world answers to one call of ScrapeYear: whether http.Get
\* succeeds, the status of the response, whether the body parses, the page,
\* whether MkdirAll and os.Create succeed, and how many records reach the
\* file before Encode returns (all of them: Encode succeeds).
Env(get, status, parse, page, mkdir, create, written) ==
    [get |-> get, status |-> status, parse |-> parse, page |-> page,
     mkdir |-> mkdir, create |-> create, written |-> written]

BadStatuses == {404, 500}

\* The answers to the fetch (the later answers do not matter to it)
FetchEnvs ==
    {Env(FALSE, StatusOK, TRUE, PageNoTable, TRUE, TRUE, 0)}
    \cup {Env(TRUE, st, TRUE, PageNoTable, TRUE, TRUE, 0) : st \in BadStatuses}
    \cup {Env(TRUE, StatusOK, FALSE, PageNoTable, TRUE, TRUE, 0)}
    \cup {Env(TRUE, StatusOK, TRUE, p, TRUE, TRUE, 0) : p \in Pages}

\* The answers to MkdirAll and os.Create
OpenEnvs ==
    {Env(TRUE, StatusOK, TRUE, PageNoTable, mk, cr, 0) :
        mk \in BOOLEAN, cr \in BOOLEAN}

\* The years a run is asked for: a range from..to (empty when from > to) or
\* the single -year, within a window around the first supported year.
FirstYear == MinYear - 1
YearWindow == FirstYear..(FirstYear + MaxYears)
\* YearsOf, but the first year over and over
YearsOfRepeated(from, to) == [i \in 1..(to - from + 1) |-> from]

YearsOf(from, to) == [i \in 1..(to - from + 1) |-> from + i - 1]
YearLists ==
    {YearsOf(f, t) : f \in YearWindow, t \in (FirstYear - 1)..(FirstYear + MaxYears)}
        \cap {ys \in UNION {[1..n -> YearWindow] : n \in 0..MaxYears} : TRUE}

\* ------------------------------------------------------------------ state
\* Thread 0 is the main goroutine (it scrapes on the sequential path);
\* threads 1..concurrency are the workers of the pool.
Threads == 0..MaxC

VARIABLES
    concurrency,  \* *concurrency
    retries,      \* *retries
    years,        \* years, the list built from -year or -from/-to
    mainPc,       \* main: "seq", "spawn", "wait" or "done"
    spawned,      \* i of the loop that starts the workers
    wg,           \* the WaitGroup counter
    producer,     \* the sending goroutine: "unstarted", "running", "closed"
    next,         \* index in years of the job the producer sends next
    pc,           \* per thread: "off", "next" (main, between two years), "recv",
                  \* "scrape", "parsed", "encode", "sleep", "exited"
    cur,          \* per thread: index in years of the job (year) it works on
    attempt,      \* per worker: attempt of the retry loop
    doc,          \* per thread: the parsed page of the ScrapeYear call in progress
    recs,         \* per thread: judgments of the ScrapeYear call in progress
    err,          \* per thread: what its latest call of ScrapeYear returned in this
                  \* iteration of its loop, "ok" or the step that failed ("none"
                  \* before the call returns)
    before,       \* per thread: the file of the year when that call started
    outDir,       \* whether the output directory exists
    files,        \* per year: the output file sci_judgments_<year>.json
    jobState,     \* per job: "Pending", "Attempting", "Sleeping", "Succeeded", "Abandoned"
    started,      \* per job: calls of ScrapeYear started for it
    gets,         \* per job: calls of http.Get made for it
    finished,     \* per job: calls of ScrapeYear that returned
    oks,          \* per job: calls of ScrapeYear that returned nil
    delivered,    \* per job: how many times a worker received it from the channel
    script,       \* answers fixed in advance per job and attempt, or NoScript
    fs0,          \* the output directory as it was before the run
    prev,         \* outcome of the preceding run of the program, or NoPrev
    scanPc,       \* the extraction under study: "idle", "parsed", "header",
                  \* "rows" or "scanned"
    scanDoc,      \* doc, the parsed page it reads
    sel,          \* sel: the located table, <<table>>, or <<>> when there is none
    hasHeader,    \* hasHeader
    headerMap,    \* headerMap
    thIdx,        \* i of the Each over the th cells of the first row
    rowIdx,       \* i of the Each over the rows
    lastShift,    \* shift of the row read last
    judgments     \* judgments

vars == <<concurrency, retries, years, mainPc, spawned, wg, producer, next, pc,
          cur, attempt, doc, recs, err, before, outDir, files, jobState, started,
          gets, finished, oks, delivered, script, fs0, prev, scanPc, scanDoc, sel,
          hasHeader, headerMap, thIdx, rowIdx, lastShift, judgments>>

flagVars == <<concurrency, retries, years, script, fs0, prev>>
poolVars == <<spawned, wg, producer, next>>
histVars == <<jobState, started, gets, finished, oks, delivered>>
scanVars == <<scanPc, scanDoc, sel, hasHeader, headerMap, thIdx, rowIdx, lastShift,
              judgments>>

Jobs == 1..Len(years)
Workers == 1..concurrency

NoFile == [exists |-> FALSE, data |-> <<>>]
File(data) == [exists |-> TRUE, data |-> data]
\* What a file left by an earlier run of the program holds
OldJudgment == Judgment("31-12-2015", "Old vs Older", "", "", "")
OldFile == File(<<OldJudgment>>)

NoScript == <<>>
NoPrev == [ran |-> FALSE]

\* The state of the program when main reaches line 33, for given flags
Start(c, r, ys) ==
    /\ concurrency = c
    /\ retries = r
    /\ years = ys
    /\ mainPc = IF c <= 1 THEN "seq" ELSE "spawn"
    /\ spawned = 0
    /\ wg = 0
    /\ producer = "unstarted"
    /\ next = 1
    /\ pc = [t \in Threads |-> IF t = 0 /\ c <= 1 THEN "next" ELSE "off"]
    /\ cur = [t \in Threads |-> IF t = 0 /\ c <= 1 THEN 1 ELSE 0]
    /\ attempt = [t \in Threads |-> 0]
    /\ doc = [t \in Threads |-> <<>>]
    /\ recs = [t \in Threads |-> <<>>]
    /\ err = [t \in Threads |-> "none"]
    /\ before = [t \in Threads |-> NoFile]
    /\ jobState = [j \in 1..Len(ys) |-> "Pending"]
    /\ started = [j \in 1..Len(ys) |-> 0]
    /\ gets = [j \in 1..Len(ys) |-> 0]
    /\ finished = [j \in 1..Len(ys) |-> 0]
    /\ oks = [j \in 1..Len(ys) |-> 0]
    /\ delivered = [j \in 1..Len(ys) |-> 0]

\* No extraction is under study while the scheduler runs
NoScan ==
    /\ scanPc = "idle"
    /\ scanDoc = <<>>
    /\ sel = <<>>
    /\ hasHeader = FALSE
    /\ headerMap = EmptyMap
    /\ thIdx = 0
    /\ rowIdx = 0
    /\ lastShift = 0
    /\ judgments = <<>>

\* The output directory before the run: missing, empty, or holding the
\* files of an earlier run.
InitFs ==
    \/ outDir = FALSE /\ files = [y \in YearWindow |-> NoFile]
    \/ outDir = TRUE /\ files = [y \in YearWindow |-> NoFile]
    \/ outDir = TRUE /\ files = [y \in YearWindow |-> OldFile]

Init ==
    /\ \E c \in 0..MaxC, r \in 0..MaxRetries, ys \in YearLists : Start(c, r, ys)
    /\ InitFs
    /\ fs0 = [outDir |-> outDir, files |-> files]
    /\ script = NoScript
    /\ prev = NoPrev
    /\ NoScan

\* ------------------------------------------------------------- ScrapeYear
\* The answers the fetch of job j, attempt k, may get; those MkdirAll and
\* os.Create may get; and how many of the judgments js Encode may get into
\* the file.
FetchFor(j, k) == IF script = NoScript THEN FetchEnvs ELSE {script[j][k]}
OpenFor(j, k) == IF script = NoScript THEN OpenEnvs ELSE {script[j][k]}
WrittenFor(j, k, js) ==
    IF script = NoScript THEN 0..Len(js)
    ELSE {IF script[j][k].written < Len(js) THEN script[j][k].written ELSE Len(js)}

\* year < 2016 || year > 2025
OutOfRange(year) == year < MinYear \/ year > MaxYear

\* ScrapeFetch, but the year is tested after the page was asked for
ScrapeFetchLateRange(year, e) ==
    IF ~e.get THEN "get"
    ELSE IF OutOfRange(year) THEN "range"
    ELSE IF e.status # StatusOK THEN "status"
    ELSE IF ~e.parse THEN "parse"
    ELSE "parsed"

\* ScrapeYear, lines 41-58: the step that returns the error ("range", "get",
\* "status", "parse"), or "parsed" when the document is there.
ScrapeFetch(year, e) ==
    IF OutOfRange(year) THEN "range"
    ELSE IF ~e.get THEN "get"
    ELSE IF e.status # StatusOK THEN "status"
    ELSE IF ~e.parse THEN "parse"
    ELSE "parsed"

\* A test that lets an empty list through
NoJudgmentsNever(js) == FALSE

\* len(judgments) == 0
NoJudgments(js) == Len(js) = 0

\* ScrapeYear, lines 60-174: the step that returns the error ("empty",
\* "mkdir", "create"), or "open" when the output file is open for writing.
ScrapeOpen(js, e) ==
    IF NoJudgments(js) THEN "empty"
    ELSE IF ~e.mkdir THEN "mkdir"
    ELSE IF ~e.create THEN "create"
    ELSE "open"

\* os.MkdirAll has made the directory once ScrapeYear is past it.
DirAfter(stage) == IF stage \in {"create", "open"} THEN TRUE ELSE outDir

\* os.Create leaves the file of the year existing and empty.
FilesAfterOpen(year, stage) ==
    IF stage = "open" THEN [files EXCEPT ![year] = File(<<>>)] ELSE files

\* enc.Encode(judgments) that gets the first n judgments into the file
FilesAfterEncode(year, js, n) == [files EXCEPT ![year] = File(SubSeq(js, 1, n))]

\* Encode returns nil when everything was written.
EncodeResult(js, n) == IF n = Len(js) THEN "ok" ELSE "encode"

\* Thread t calls ScrapeYear for job j and the call gets to stage: past
\* the test of the year it calls http.Get.
CallStarts(t, j, stage) ==
    /\ started' = [started EXCEPT ![j] = @ + 1]
    /\ gets' = [gets EXCEPT ![j] = IF stage = "range" THEN @ ELSE @ + 1]
    /\ before' = [before EXCEPT ![t] = files[years[j]]]

\* The call of thread t for job j returns result ("ok" or the failed step).
CallReturns(t, j, result) ==
    /\ finished' = [finished EXCEPT ![j] = @ + 1]
    /\ oks' = [oks EXCEPT ![j] = IF result = "ok" THEN @ + 1 ELSE @]
    /\ err' = [err EXCEPT ![t] = result]

\* The call of thread t goes on.
CallGoesOn(t) ==
    /\ err' = [err EXCEPT ![t] = "none"]
    /\ UNCHANGED <<finished, oks>>

\* --------------------------------------------------- the sequential path
\* A loop that returns from main at the first failed year
SeqYearDoneAbort(j, result) ==
    /\ CallReturns(0, j, result)
    /\ jobState' = [jobState EXCEPT ![j] =
                       IF result = "ok" THEN "Succeeded" ELSE "Abandoned"]
    /\ cur' = [cur EXCEPT ![0] = IF result = "ok" THEN j + 1 ELSE Len(years) + 1]
    /\ pc' = [pc EXCEPT ![0] = "next"]

\* A loop that scrapes a failed year again
SeqYearDoneRetry(j, result) ==
    /\ CallReturns(0, j, result)
    /\ jobState' = [jobState EXCEPT ![j] =
                       IF result = "ok" THEN "Succeeded" ELSE "Attempting"]
    /\ cur' = [cur EXCEPT ![0] = IF result = "ok" THEN j + 1 ELSE j]
    /\ pc' = [pc EXCEPT ![0] = IF result = "ok" THEN "next" ELSE "scrape"]

\* The body of `for _, y := range years` after ScrapeYear returned: the
\* result is logged and the loop goes on to the next year.
SeqYearDone(j, result) ==
    /\ CallReturns(0, j, result)
    /\ jobState' = [jobState EXCEPT ![j] =
                       IF result = "ok" THEN "Succeeded" ELSE "Abandoned"]
    /\ cur' = [cur EXCEPT ![0] = j + 1]
    /\ pc' = [pc EXCEPT ![0] = "next"]

\* main, lines 35-36: the loop takes the next year of the list
SeqBegin ==
    /\ mainPc = "seq"
    /\ pc[0] = "next"
    /\ cur[0] \in Jobs
    /\ pc' = [pc EXCEPT ![0] = "scrape"]
    /\ jobState' = [jobState EXCEPT ![cur[0]] = "Attempting"]
    /\ err' = [err EXCEPT ![0] = "none"]
    /\ before' = [before EXCEPT ![0] = NoFile]
    /\ UNCHANGED <<flagVars, scanVars, poolVars, mainPc, cur, attempt, doc, recs, outDir, files,
                   started, gets, finished, oks, delivered>>

\* main, line 37: ScrapeYear up to the parsed document
SeqFetch ==
    /\ mainPc = "seq"
    /\ pc[0] = "scrape"
    /\ LET j == cur[0] IN
       \E e \in FetchFor(j, 1) :
          LET stage == ScrapeFetch(years[j], e) IN
          /\ CallStarts(0, j, stage)
          /\ IF stage = "parsed"
             THEN /\ pc' = [pc EXCEPT ![0] = "parsed"]
                  /\ doc' = [doc EXCEPT ![0] = e.page]
                  /\ CallGoesOn(0)
                  /\ UNCHANGED <<cur, jobState>>
             ELSE /\ SeqYearDone(j, stage)
                  /\ UNCHANGED doc
    /\ UNCHANGED <<flagVars, scanVars, poolVars, mainPc, attempt, recs, outDir, files, delivered>>

\* main, line 37: ScrapeYear from the extraction to os.Create
SeqOpen ==
    /\ mainPc = "seq"
    /\ pc[0] = "parsed"
    /\ LET j == cur[0]
           js == Extracted[doc[0]]
       IN  \E e \in OpenFor(j, 1) :
              LET stage == ScrapeOpen(js, e) IN
              /\ outDir' = DirAfter(stage)
              /\ files' = FilesAfterOpen(years[j], stage)
              /\ doc' = [doc EXCEPT ![0] = <<>>]
              /\ IF stage = "open"
                 THEN /\ pc' = [pc EXCEPT ![0] = "encode"]
                      /\ recs' = [recs EXCEPT ![0] = js]
                      /\ CallGoesOn(0)
                      /\ UNCHANGED <<cur, jobState>>
                 ELSE /\ SeqYearDone(j, stage)
                      /\ UNCHANGED recs
    /\ UNCHANGED <<flagVars, scanVars, poolVars, mainPc, attempt, started, gets, before, delivered>>

\* main, lines 37-41: ScrapeYear from enc.Encode to its return
SeqEncode ==
    /\ mainPc = "seq"
    /\ pc[0] = "encode"
    /\ LET j == cur[0] IN
       \E n \in WrittenFor(j, 1, recs[0]) :
          /\ files' = FilesAfterEncode(years[j], recs[0], n)
          /\ SeqYearDone(j, EncodeResult(recs[0], n))
          /\ recs' = [recs EXCEPT ![0] = <<>>]
    /\ UNCHANGED <<flagVars, scanVars, poolVars, mainPc, attempt, doc, outDir, started, gets, before,
                   delivered>>

\* main, line 43: the return after the last year
SeqReturn ==
    /\ mainPc = "seq"
    /\ pc[0] = "next"
    /\ cur[0] \notin Jobs
    /\ mainPc' = "done"
    /\ pc' = [pc EXCEPT ![0] = "exited"]
    /\ UNCHANGED <<flagVars, scanVars, poolVars, cur, attempt, doc, recs, err, before, outDir,
                   files, histVars>>

\* -------------------------------------------------------- the worker pool
\* Workers started without wg.Add(1)
SpawnNoAdd ==
    /\ mainPc = "spawn"
    /\ spawned < concurrency
    /\ spawned' = spawned + 1
    /\ pc' = [pc EXCEPT ![spawned + 1] = "recv"]
    /\ UNCHANGED <<flagVars, scanVars, mainPc, wg, producer, next, cur, attempt, doc, recs, err,
                   before, outDir, files, histVars>>

\* main, lines 74-77: wg.Add(1); go worker(i + 1)
Spawn ==
    /\ mainPc = "spawn"
    /\ spawned < concurrency
    /\ spawned' = spawned + 1
    /\ wg' = wg + 1
    /\ pc' = [pc EXCEPT ![spawned + 1] = "recv"]
    /\ UNCHANGED <<flagVars, scanVars, mainPc, producer, next, cur, attempt, doc, recs, err,
                   before, outDir, files, histVars>>

\* main, lines 80-88: the sending goroutine is started and main waits
StartProducer ==
    /\ mainPc = "spawn"
    /\ spawned >= concurrency
    /\ producer' = "running"
    /\ mainPc' = "wait"
    /\ UNCHANGED <<flagVars, scanVars, spawned, wg, next, pc, cur, attempt, doc, recs, err,
                   before, outDir, files, histVars>>

\* The job the producer is blocked sending, if any (jobs is unbuffered).
Offered == IF producer = "running" /\ next \in Jobs THEN {next} ELSE {}

\* A receive that leaves the job with the producer
RecvNoAdvance(w) ==
    /\ pc[w] = "recv"
    /\ \E j \in Offered :
          /\ cur' = [cur EXCEPT ![w] = j]
          /\ attempt' = [attempt EXCEPT ![w] = 0]
          /\ pc' = [pc EXCEPT ![w] = "scrape"]
          /\ jobState' = [jobState EXCEPT ![j] = "Attempting"]
          /\ delivered' = [delivered EXCEPT ![j] = @ + 1]
    /\ err' = [err EXCEPT ![w] = "none"]
    /\ before' = [before EXCEPT ![w] = NoFile]
    /\ UNCHANGED <<flagVars, scanVars, mainPc, spawned, wg, producer, next, doc, recs, outDir,
                   files, started, gets, finished, oks>>

\* `jobs <- job{year: y}` meets `for j := range jobs` of worker w: the
\* producer goes on to the next year, the worker starts its job (attempt := 0).
Recv(w) ==
    /\ pc[w] = "recv"
    /\ \E j \in Offered :
          /\ next' = next + 1
          /\ cur' = [cur EXCEPT ![w] = j]
          /\ attempt' = [attempt EXCEPT ![w] = 0]
          /\ pc' = [pc EXCEPT ![w] = "scrape"]
          /\ jobState' = [jobState EXCEPT ![j] = "Attempting"]
          /\ delivered' = [delivered EXCEPT ![j] = @ + 1]
    /\ err' = [err EXCEPT ![w] = "none"]
    /\ before' = [before EXCEPT ![w] = NoFile]
    /\ UNCHANGED <<flagVars, scanVars, mainPc, spawned, wg, producer, doc, recs, outDir, files,
                   started, gets, finished, oks>>

\* close(jobs) after the last send
Close ==
    /\ producer = "running"
    /\ next \notin Jobs
    /\ producer' = "closed"
    /\ UNCHANGED <<flagVars, scanVars, mainPc, spawned, wg, next, pc, cur, attempt, doc, recs,
                   err, before, outDir, files, histVars>>

\* WorkerExit, but without wg.Done()
WorkerExitNoDone(w) ==
    /\ pc[w] = "recv"
    /\ producer = "closed"
    /\ pc' = [pc EXCEPT ![w] = "exited"]
    /\ cur' = [cur EXCEPT ![w] = 0]
    /\ attempt' = [attempt EXCEPT ![w] = 0]
    /\ err' = [err EXCEPT ![w] = "none"]
    /\ before' = [before EXCEPT ![w] = NoFile]
    /\ UNCHANGED <<flagVars, scanVars, mainPc, spawned, wg, producer, next, doc, recs, outDir,
                   files, histVars>>

\* `for j := range jobs` ends on the closed channel; defer wg.Done(). The
\* locals of the goroutine are gone.
WorkerExit(w) ==
    /\ pc[w] = "recv"
    /\ producer = "closed"
    /\ pc' = [pc EXCEPT ![w] = "exited"]
    /\ wg' = wg - 1
    /\ cur' = [cur EXCEPT ![w] = 0]
    /\ attempt' = [attempt EXCEPT ![w] = 0]
    /\ err' = [err EXCEPT ![w] = "none"]
    /\ before' = [before EXCEPT ![w] = NoFile]
    /\ UNCHANGED <<flagVars, scanVars, mainPc, spawned, producer, next, doc, recs, outDir, files,
                   histVars>>

\* Retry tests that are off by one
GiveUpEarly(k, r) == k >= r
GiveUpLate(k, r) == k > r + 1

\* attempt > *retries
GiveUp(k, r) == k > r

\* WorkerFailed, but the worker goes back to the channel instead of sleeping
WorkerFailedNoWait(w, j, k, result) ==
    /\ CallReturns(w, j, result)
    /\ IF GiveUp(k, retries)
       THEN /\ jobState' = [jobState EXCEPT ![j] = "Abandoned"]
            /\ pc' = [pc EXCEPT ![w] = "recv"]
       ELSE /\ jobState' = [jobState EXCEPT ![j] = "Sleeping"]
            /\ pc' = [pc EXCEPT ![w] = "recv"]

\* worker, lines 63-68: ScrapeYear returned an error on attempt k of job j
WorkerFailed(w, j, k, result) ==
    /\ CallReturns(w, j, result)
    /\ IF GiveUp(k, retries)
       THEN /\ jobState' = [jobState EXCEPT ![j] = "Abandoned"]
            /\ pc' = [pc EXCEPT ![w] = "recv"]
       ELSE /\ jobState' = [jobState EXCEPT ![j] = "Sleeping"]
            /\ pc' = [pc EXCEPT ![w] = "sleep"]

\* A success that does not leave the retry loop
WorkerSucceededNoBreak(w, j) ==
    /\ CallReturns(w, j, "ok")
    /\ jobState' = [jobState EXCEPT ![j] = "Succeeded"]
    /\ pc' = [pc EXCEPT ![w] = "scrape"]

\* worker, lines 59-61: ScrapeYear returned nil
WorkerSucceeded(w, j) ==
    /\ CallReturns(w, j, "ok")
    /\ jobState' = [jobState EXCEPT ![j] = "Succeeded"]
    /\ pc' = [pc EXCEPT ![w] = "recv"]

\* worker, lines 56-58: attempt++; ScrapeYear up to the parsed document
WorkerFetch(w) ==
    /\ pc[w] = "scrape"
    /\ w \in Workers
    /\ LET j == cur[w]
           k == attempt[w] + 1
       IN  \E e \in FetchFor(j, k) :
              LET stage == ScrapeFetch(years[j], e) IN
              /\ attempt' = [attempt EXCEPT ![w] = k]
              /\ CallStarts(w, j, stage)
              /\ IF stage = "parsed"
                 THEN /\ pc' = [pc EXCEPT ![w] = "parsed"]
                      /\ doc' = [doc EXCEPT ![w] = e.page]
                      /\ CallGoesOn(w)
                      /\ UNCHANGED jobState
                 ELSE /\ WorkerFailed(w, j, k, stage)
                      /\ UNCHANGED doc
    /\ UNCHANGED <<flagVars, scanVars, poolVars, mainPc, cur, recs, outDir, files, delivered>>

\* worker, line 58: ScrapeYear from the extraction to os.Create
WorkerOpen(w) ==
    /\ pc[w] = "parsed"
    /\ w \in Workers
    /\ LET j == cur[w]
           js == Extracted[doc[w]]
       IN  \E e \in OpenFor(j, attempt[w]) :
              LET stage == ScrapeOpen(js, e) IN
              /\ outDir' = DirAfter(stage)
              /\ files' = FilesAfterOpen(years[j], stage)
              /\ doc' = [doc EXCEPT ![w] = <<>>]
              /\ IF stage = "open"
                 THEN /\ pc' = [pc EXCEPT ![w] = "encode"]
                      /\ recs' = [recs EXCEPT ![w] = js]
                      /\ CallGoesOn(w)
                      /\ UNCHANGED jobState
                 ELSE /\ WorkerFailed(w, j, attempt[w], stage)
                      /\ UNCHANGED recs
    /\ UNCHANGED <<flagVars, scanVars, poolVars, mainPc, cur, attempt, started, gets, before, delivered>>

\* worker, lines 58-68: ScrapeYear from enc.Encode to its return
WorkerEncode(w) ==
    /\ pc[w] = "encode"
    /\ w \in Workers
    /\ LET j == cur[w] IN
       \E n \in WrittenFor(j, attempt[w], recs[w]) :
          /\ files' = FilesAfterEncode(years[j], recs[w], n)
          /\ IF EncodeResult(recs[w], n) = "ok"
             THEN WorkerSucceeded(w, j)
             ELSE WorkerFailed(w, j, attempt[w], EncodeResult(recs[w], n))
          /\ recs' = [recs EXCEPT ![w] = <<>>]
    /\ UNCHANGED <<flagVars, scanVars, poolVars, mainPc, cur, attempt, doc, outDir, started, gets,
                   before, delivered>>

\* worker, line 68: time.Sleep returns and the loop starts its next
\* iteration (err is local to the iteration)
Wake(w) ==
    /\ pc[w] = "sleep"
    /\ pc' = [pc EXCEPT ![w] = "scrape"]
    /\ jobState' = [jobState EXCEPT ![cur[w]] = "Attempting"]
    /\ err' = [err EXCEPT ![w] = "none"]
    /\ before' = [before EXCEPT ![w] = NoFile]
    /\ UNCHANGED <<flagVars, scanVars, poolVars, mainPc, cur, attempt, doc, recs, outDir, files,
                   started, gets, finished, oks, delivered>>

\* main, line 88: wg.Wait() returns
WaitReturn ==
    /\ mainPc = "wait"
    /\ wg = 0
    /\ mainPc' = "done"
    /\ UNCHANGED <<flagVars, scanVars, poolVars, pc, cur, attempt, doc, recs, err, before,
                   outDir, files, histVars>>

Next ==
    \/ SeqBegin
    \/ SeqFetch
    \/ SeqOpen
    \/ SeqEncode
    \/ SeqReturn
    \/ Spawn
    \/ StartProducer
    \/ Close
    \/ WaitReturn
    \/ \E w \in 1..MaxC : Recv(w)
    \/ \E w \in 1..MaxC : WorkerExit(w)
    \/ \E w \in 1..MaxC : WorkerFetch(w)
    \/ \E w \in 1..MaxC : WorkerOpen(w)
    \/ \E w \in 1..MaxC : WorkerEncode(w)
    \/ \E w \in 1..MaxC : Wake(w)

Spec == Init /\ [][Next]_vars

\* ------------------------------------------------- two runs, same answers
\* The answers a script is made of: a failed GET, a page with one judgment
\* that is written in full, and a page with two of which one is written.
ScriptEnvs ==
    {Env(FALSE, StatusOK, TRUE, PageNoTable, TRUE, TRUE, 0),
     Env(TRUE, StatusOK, TRUE, PageOneRow, TRUE, TRUE, 1),
     Env(TRUE, StatusOK, TRUE, PageTwoRows, TRUE, TRUE, 1)}

\* A run with -concurrency 1 whose answers are fixed per year and attempt
InitPair ==
    /\ \E r \in 0..MaxRetries, ys \in YearLists :
          /\ Start(1, r, ys)
          /\ script \in [1..Len(ys) -> [1..(r + 1) -> ScriptEnvs]]
    /\ InitFs
    /\ fs0 = [outDir |-> outDir, files |-> files]
    /\ prev = NoPrev
    /\ NoScan

\* The program has ended and is run again on the same years with the same
\* -retries, the same answers and the output directory as it was, with
\* -concurrency c > 1; what the first run left is remembered.
Restart ==
    /\ mainPc = "done"
    /\ script # NoScript
    /\ ~prev.ran
    /\ prev' = [ran |-> TRUE, jobState |-> jobState, files |-> files]
    /\ \E c \in 2..MaxC : concurrency' = c
    /\ mainPc' = "spawn"
    /\ spawned' = 0
    /\ wg' = 0
    /\ producer' = "unstarted"
    /\ next' = 1
    /\ pc' = [t \in Threads |-> "off"]
    /\ cur' = [t \in Threads |-> 0]
    /\ attempt' = [t \in Threads |-> 0]
    /\ doc' = [t \in Threads |-> <<>>]
    /\ recs' = [t \in Threads |-> <<>>]
    /\ err' = [t \in Threads |-> "none"]
    /\ before' = [t \in Threads |-> NoFile]
    /\ outDir' = fs0.outDir
    /\ files' = fs0.files
    /\ jobState' = [j \in Jobs |-> "Pending"]
    /\ started' = [j \in Jobs |-> 0]
    /\ gets' = [j \in Jobs |-> 0]
    /\ finished' = [j \in Jobs |-> 0]
    /\ oks' = [j \in Jobs |-> 0]
    /\ delivered' = [j \in Jobs |-> 0]
    /\ UNCHANGED <<retries, years, script, fs0, scanVars>>

NextPair == Next \/ Restart

SpecPair == InitPair /\ [][NextPair]_vars

\* ------------------------------------------------- the worker pool alone
\* Runs with -concurrency above 1 over the years from some year of the
\* window to its last, or over no year: lists longer than the pool is wide,
\* as wide, shorter, and empty.
PoolYearLists ==
    {YearsOf(f, FirstYear + MaxYears) : f \in FirstYear..(FirstYear + MaxYears + 1)}

InitPool ==
    /\ \E c \in 2..MaxC, r \in 0..MaxRetries, ys \in PoolYearLists : Start(c, r, ys)
    /\ outDir = TRUE
    /\ files = [y \in YearWindow |-> NoFile]
    /\ fs0 = [outDir |-> outDir, files |-> files]
    /\ script = NoScript
    /\ prev = NoPrev
    /\ NoScan

NextPool ==
    \/ Spawn
    \/ StartProducer
    \/ Close
    \/ WaitReturn
    \/ \E w \in 1..MaxC : Recv(w)
    \/ \E w \in 1..MaxC : WorkerExit(w)
    \/ \E w \in 1..MaxC : WorkerFetch(w)
    \/ \E w \in 1..MaxC : WorkerOpen(w)
    \/ \E w \in 1..MaxC : WorkerEncode(w)
    \/ \E w \in 1..MaxC : Wake(w)

SpecPool == InitPool /\ [][NextPool]_vars

\* The Go scheduler lets some goroutine that can take a step take one, and
\* every call in progress (http.Get, os.Create, Encode, time.Sleep) returns.
SpecPoolFair == SpecPool /\ WF_vars(NextPool)

\* ------------------------------------------- the extraction, step by step
\* The part of ScrapeYear between the parsed document and len(judgments),
\* one step per callback of its Each loops, over tables made of a header
\* row and data rows drawn from the texts and rows below.
MaxHeaderCells == 2   \* most th cells of a drawn header row
MaxRows == 2          \* most data rows of a drawn table

HeaderTexts ==
    {" ", "S.No", "Date of Judgment", "Cause Title", "Subject",
     "Judgment Summary", "Case Summary", "View Summary", "Date of Case",
     "Subject Title"}

DataRows ==
    {Row(<<>>, <<"1", "01-01-2016", " X vs Y ", "Constitutional", "Summary text", "">>,
         <<NoHref, Href("view-pdf/123")>>),
     Row(<<>>, <<" 007 ", "02-03-2017", "A vs B", "Tax", "First">>,
         <<Href("/docs/a.pdf")>>),
     Row(<<>>, <<"12", "C vs D", "Civil", "Second">>,
         <<Href("notes.html"), Href(" https://x.gov/A.PDF "), Href("/docs/b.pdf")>>),
     Row(<<>>, <<"1234567", "04-05-2017", "E vs F", "", "Third">>, <<Href(":b.pdf")>>),
     Row(<<>>, <<"7a", "", "G vs H", "", "">>, <<>>),
     Row(<<>>, <<" ", "", "\n", "", "">>, <<Href("about.html")>>),
     Row(<<>>, <<"">>, <<Href("?id=7&view-pdf=1")>>),
     Row(<<"Total">>, <<>>, <<Href("/docs/all.pdf")>>)}

HeaderRows ==
    {Row(ths, <<>>, <<>>) :
        ths \in UNION {[1..n -> HeaderTexts] : n \in 0..MaxHeaderCells}}
    \cup {HeaderRow}

ScanPages ==
    Pages \cup
    {<<Table(TRUE, <<h>> \o rows)>> :
        h \in HeaderRows, rows \in UNION {[1..n -> DataRows] : n \in 0..MaxRows}}

schedVars == <<concurrency, retries, years, mainPc, spawned, wg, producer, next, pc,
               cur, attempt, doc, recs, err, before, outDir, files, jobState,
               started, gets, finished, oks, delivered, script, fs0, prev>>

\* goquery has parsed the body of some page; no scheduler runs
InitScan ==
    /\ Start(1, 0, <<>>)
    /\ outDir = FALSE
    /\ files = [y \in YearWindow |-> NoFile]
    /\ fs0 = [outDir |-> outDir, files |-> files]
    /\ script = NoScript
    /\ prev = NoPrev
    /\ scanPc = "parsed"
    /\ scanDoc \in ScanPages
    /\ sel = <<>>
    /\ hasHeader = FALSE
    /\ headerMap = EmptyMap
    /\ thIdx = 0
    /\ rowIdx = 0
    /\ lastShift = 0
    /\ judgments = <<>>

\* sel := the landmark table, else the first table; headerMap := map[string]int{}
Locate ==
    /\ scanPc = "parsed"
    /\ sel' = LocateTable(scanDoc)
    /\ scanPc' = IF Len(sel') > 0 THEN "header" ELSE "scanned"
    /\ UNCHANGED <<schedVars, scanDoc, hasHeader, headerMap, thIdx, rowIdx, lastShift,
                   judgments>>

\* The th cells of the first tr
HeaderThs == IF Len(sel[1].rows) = 0 THEN <<>> ELSE sel[1].rows[1].th

\* One callback of the Each over the th cells of the first row
ScanHeaderCell ==
    /\ scanPc = "header"
    /\ thIdx < Len(HeaderThs)
    /\ headerMap' = HeaderCell(headerMap, thIdx, HeaderThs[thIdx + 1])
    /\ hasHeader' = (hasHeader \/ TrimSpace(HeaderThs[thIdx + 1]) # "")
    /\ thIdx' = thIdx + 1
    /\ UNCHANGED <<schedVars, scanPc, scanDoc, sel, rowIdx, lastShift, judgments>>

\* The Each over the th cells returns
ScanHeaderDone ==
    /\ scanPc = "header"
    /\ thIdx = Len(HeaderThs)
    /\ scanPc' = "rows"
    /\ UNCHANGED <<schedVars, scanDoc, sel, hasHeader, headerMap, thIdx, rowIdx,
                   lastShift, judgments>>

\* One callback of the Each over the rows
ScanRow ==
    /\ scanPc = "rows"
    /\ rowIdx < Len(sel[1].rows)
    /\ LET row == sel[1].rows[rowIdx + 1]
           j == RowRecord(headerMap, row)
           skip == (rowIdx = 0 /\ hasHeader) \/ Len(row.td) < 1
       IN  /\ judgments' = IF ~skip /\ Retained(j) THEN Append(judgments, j)
                           ELSE judgments
           /\ lastShift' = IF skip THEN 0 ELSE Shift(row.td)
    /\ rowIdx' = rowIdx + 1
    /\ UNCHANGED <<schedVars, scanPc, scanDoc, sel, hasHeader, headerMap, thIdx>>

\* The Each over the rows returns
ScanRowsDone ==
    /\ scanPc = "rows"
    /\ rowIdx = Len(sel[1].rows)
    /\ scanPc' = "scanned"
    /\ UNCHANGED <<schedVars, scanDoc, sel, hasHeader, headerMap, thIdx, rowIdx,
                   lastShift, judgments>>

NextScan ==
    \/ Locate
    \/ ScanHeaderCell
    \/ ScanHeaderDone
    \/ ScanRow
    \/ ScanRowsDone

SpecScan == InitScan /\ [][NextScan]_vars

\* ----------------------------------------------------------------- claims
Terminal == {"Succeeded", "Abandoned"}

\* A worker that holds a job: it is attempting it or sleeping before a retry.
Busy(w) == pc[w] \in {"scrape", "parsed", "encode", "sleep"}

\* C1: in concurrent mode a job whose every attempt fails is attempted
\* exactly retries + 1 times and then abandoned: no job is ever attempted
\* more often, a job without a successful attempt is abandoned exactly when
\* retries + 1 attempts have failed, and at the end of the run it has had
\* retries + 1 attempts.
C1_ExactlyRPlusOneAttempts ==
    concurrency > 1 =>
        \A j \in Jobs :
            /\ started[j] <= retries + 1
            /\ oks[j] = 0 =>
                  /\ jobState[j] = "Abandoned" <=> finished[j] = retries + 1
                  /\ mainPc = "done" =>
                        started[j] = retries + 1 /\ finished[j] = retries + 1

C1_Witness ==
    /\ concurrency > 1
    /\ retries = 2
    /\ \E j \in Jobs :
          jobState[j] = "Abandoned" /\ oks[j] = 0 /\ started[j] = 3 /\ finished[j] = 3

\* C3: in concurrent mode main is done (wg.Wait has returned) only when every
\* job of the list is Succeeded or Abandoned, every worker has exited and the
\* channel is closed.
C3_JoinBeforeDone ==
    (concurrency > 1 /\ mainPc = "done") =>
        /\ \A j \in Jobs : jobState[j] \in Terminal /\ finished[j] = started[j]
        /\ \A w \in Workers : pc[w] = "exited"
        /\ producer = "closed"

C3_Witness ==
    /\ concurrency > 1
    /\ mainPc = "done"
    /\ Len(years) = 2
    /\ jobState[1] = "Abandoned"
    /\ jobState[2] = "Succeeded"

\* C4: in concurrent mode every job is received at most once, a job has been
\* received exactly when the producer has gone past it, at the end of the run
\* every job has been received exactly once, and two workers never hold the
\* same job or the same year at the same time.
C4_ExactlyOnce ==
    concurrency > 1 =>
        /\ \A j \in Jobs :
              /\ delivered[j] <= 1
              /\ delivered[j] = 1 <=> j < next
              /\ mainPc = "done" => delivered[j] = 1
        /\ \A w1, w2 \in Workers :
              (w1 # w2 /\ Busy(w1) /\ Busy(w2)) =>
                  cur[w1] # cur[w2] /\ years[cur[w1]] # years[cur[w2]]

C4_Witness ==
    /\ \E w1, w2 \in Workers :
          /\ w1 # w2
          /\ pc[w1] = "encode"
          /\ pc[w2] = "sleep"
    /\ \A j \in Jobs : delivered[j] = 1

\* C5: in both modes a failed year does not stop the run or touch the other
\* years: at the end of the run every year has been attempted, no call is
\* left unfinished, and each year is Succeeded exactly when one of its own
\* calls returned nil and Abandoned otherwise.
C5_FailureIsLocal ==
    mainPc = "done" =>
        \A j \in Jobs :
            /\ started[j] >= 1
            /\ finished[j] = started[j]
            /\ jobState[j] = IF oks[j] > 0 THEN "Succeeded" ELSE "Abandoned"

C5_Witness ==
    /\ concurrency <= 1
    /\ mainPc = "done"
    /\ Len(years) = 2
    /\ jobState[1] = "Abandoned"
    /\ jobState[2] = "Succeeded"

\* The steps of a job
JobSteps ==
    {<<"Pending", "Attempting">>, <<"Attempting", "Succeeded">>,
     <<"Attempting", "Sleeping">>, <<"Sleeping", "Attempting">>,
     <<"Attempting", "Abandoned">>}

\* C6: a job moves only along Pending -> Attempting -> Succeeded, Sleeping
\* (then Attempting again) or Abandoned; once Succeeded or Abandoned its state
\* and its counts of deliveries and calls never change; and once it has left
\* Pending it is never Pending again.
C6_JobStateMachine ==
    [][\A j \in Jobs :
          /\ jobState[j] \in Terminal =>
                /\ jobState'[j] = jobState[j]
                /\ started'[j] = started[j]
                /\ finished'[j] = finished[j]
                /\ delivered'[j] = delivered[j]
          /\ jobState[j] # "Pending" => jobState'[j] # "Pending"
          /\ jobState'[j] # jobState[j] => <<jobState[j], jobState'[j]>> \in JobSteps]_vars

C6_Witness ==
    /\ concurrency > 1
    /\ \E j1, j2 \in Jobs :
          /\ jobState[j1] = "Succeeded"
          /\ jobState[j2] = "Sleeping"
          /\ started[j2] = 2

C2_SameOutcomeInBothModes ==
    (prev.ran /\ mainPc = "done") =>
        \A j \in Jobs :
            /\ jobState[j] = prev.jobState[j]
            /\ jobState[j] = "Succeeded" => files[years[j]] = prev.files[years[j]]

\* The job of the latest call of thread t (main has moved on to the next year)
LastJob(t) == IF t = 0 THEN cur[0] - 1 ELSE cur[t]

\* The record sets a complete output file can hold
CompleteSets == {Extracted[p] : p \in Pages} \ {<<>>}

\* C9: after a call of ScrapeYear has returned, the file of the year holds
\* a complete non-empty record set when the call returned nil, and is as it
\* was when the call started when it returned an error.
C9_NoPartialSuccess ==
    \A t \in Threads :
        err[t] # "none" =>
            LET f == files[years[LastJob(t)]]
            IN  IF err[t] = "ok"
                THEN f.exists /\ f.data \in CompleteSets
                ELSE f = before[t]

\* The pages without a table, or whose table has no row that is kept
NoRecords(page) ==
    LET found == LocateTable(page)
    IN  \/ Len(found) = 0
        \/ \A i \in 0..(Len(found[1].rows) - 1) :
              \/ SkipRow(found[1].rows, i)
              \/ ~Retained(RowRecord(HeaderMap(found[1].rows), found[1].rows[i + 1]))
EmptyPages == {p \in Pages : NoRecords(p)}

\* C10: when the parsed page has no table, or a table without any retained
\* record, the call returns the not-found error ("empty") and leaves the
\* output directory and every file as they were; a worker then sleeps and
\* retries if attempts are left, and otherwise abandons the job, which has
\* then failed retries + 1 times; main goes on to the next year.
C10_EmptyPageNotFound ==
    [][\A t \in Threads :
          (pc[t] = "parsed" /\ doc[t] \in EmptyPages /\ pc'[t] # "parsed") =>
              /\ err'[t] = "empty"
              /\ files' = files
              /\ outDir' = outDir
              /\ t \in Workers =>
                    IF attempt[t] > retries
                    THEN /\ jobState'[cur[t]] = "Abandoned"
                         /\ finished'[cur[t]] = retries + 1
                         /\ pc'[t] = "recv"
                    ELSE /\ jobState'[cur[t]] = "Sleeping"
                         /\ pc'[t] = "sleep"
              /\ t = 0 => jobState'[cur[t]] = "Abandoned" /\ pc'[t] = "next"]_vars

C10_Witness ==
    /\ retries = 2
    /\ PageHeaderOnly \in EmptyPages
    /\ PageNoTable \in EmptyPages
    /\ \E w \in Workers :
          /\ err[w] = "empty"
          /\ pc[w] = "recv"
          /\ jobState[cur[w]] = "Abandoned"
          /\ finished[cur[w]] = 3
          /\ files = fs0.files

\* ---------------------------------------------- claims on the extraction
\* The lower-cased text of the header cell the Each over the th cells is at
HeaderLower == ToLower(TrimSpace(HeaderThs[thIdx + 1]))

\* The words of the rules the switch tries before "summary"
BeforeSummary == {"date", "cause", "case", "title", "subject"}

\* C11 as stated: whenever the callback runs on a header cell whose
\* lower-cased text contains "summary", headerMap["summary"] becomes the
\* index of that cell.
C11_SummaryCellAlwaysMapped ==
    [][(ScanHeaderCell /\ Contains(HeaderLower, "summary")) =>
          /\ "summary" \in DOMAIN headerMap'
          /\ headerMap'["summary"] = thIdx]_vars

\* C11, amended: whenever the callback runs on a header cell whose
\* lower-cased text contains "summary" and none of the words of the earlier
\* rules (date, cause, case, title, subject), headerMap["summary"] becomes
\* the index of that cell, replacing the index of an earlier summary cell,
\* and the entry of every other role is left as it was.
C11_SummaryCellMappedUnlessEarlierRule ==
    [][(/\ ScanHeaderCell
        /\ Contains(HeaderLower, "summary")
        /\ \A word \in BeforeSummary : ~Contains(HeaderLower, word)) =>
          /\ DOMAIN headerMap' = DOMAIN headerMap \cup {"summary"}
          /\ headerMap'["summary"] = thIdx
          /\ \A r \in DOMAIN headerMap \ {"summary"} : headerMap'[r] = headerMap[r]]_vars

\* Two summary cells have been read: the second has replaced the first in
\* the map, which holds no other role.
C11_Witness ==
    /\ scanPc = "header"
    /\ thIdx = 2
    /\ HeaderThs = <<"Judgment Summary", "View Summary">>
    /\ headerMap = [r \in {"summary"} |-> 1]

\* The row the Each over the rows is at, and whether the callback returns
\* before reading it (the header row, or a row without td cells)
ThisRow == sel[1].rows[rowIdx + 1]
Skipped == (rowIdx = 0 /\ hasHeader) \/ Len(ThisRow.td) < 1

\* C12: the shift of every row that is read is 1 exactly when the row has
\* at least 5 td cells and the trimmed text of the first is non-empty, at
\* most 6 characters long and made of ASCII digits only, and is 0 otherwise,
\* so 0 for every row of exactly 4 cells; it depends on the row alone, not
\* on the shift of the row before.
C12_ShiftIffSerialColumn ==
    [][(ScanRow /\ ~Skipped) =>
          LET first == TrimSpace(ThisRow.td[1])
              serial == /\ Len(ThisRow.td) >= 5
                        /\ first # ""
                        /\ Len(first) <= 6
                        /\ \A i \in 1..Len(first) : Ch(first, i) \in Digits
          IN  /\ lastShift' \in {0, 1}
              /\ lastShift' = 1 <=> serial
              /\ Len(ThisRow.td) = 4 => lastShift' = 0]_vars

\* A row of 5 cells starting with " 007 " was read with shift 1 and then a
\* row of 4 cells starting with "12" with shift 0: without header map, the
\* date of the first is its second cell and the date of the second its first.
C12_Witness ==
    /\ scanPc = "rows"
    /\ rowIdx = 3
    /\ headerMap = EmptyMap
    /\ sel[1].rows[2].td = <<" 007 ", "02-03-2017", "A vs B", "Tax", "First">>
    /\ sel[1].rows[3].td = <<"12", "C vs D", "Civil", "Second">>
    /\ lastShift = 0
    /\ Len(judgments) = 2
    /\ judgments[1].DateOfJudgment = "02-03-2017"
    /\ judgments[2].DateOfJudgment = "12"

\* The positional default of each role that is read from a cell, and the
\* field of a record that holds it
DefaultPos == [date |-> 0, cause |-> 1, subject |-> 2, summary |-> 3]
FieldOf(j) ==
    [date |-> j.DateOfJudgment, cause |-> j.CauseTitleCaseNo,
     subject |-> j.Subject, summary |-> j.JudgmentSummary]

\* C13: for every row that is read and each role among date, cause, subject
\* and summary, the field is the trimmed text of the cell at the index the
\* header map gives the role when there is one below the number of cells of
\* the row, with no shift added; else the trimmed text of the cell at the
\* positional default of the role plus the shift of the row, and empty when
\* that lies past the last cell. A record that is appended holds these fields.
C13_FieldRead ==
    [][(ScanRow /\ ~Skipped) =>
          LET cells == ThisRow.td
              j == RowRecord(headerMap, ThisRow)
              pos(role) == DefaultPos[role] + lastShift'
              expected(role) ==
                  IF role \in DOMAIN headerMap /\ headerMap[role] < Len(cells)
                  THEN TrimSpace(cells[headerMap[role] + 1])
                  ELSE IF pos(role) < Len(cells) THEN TrimSpace(cells[pos(role) + 1])
                  ELSE ""
          IN  /\ \A role \in DOMAIN DefaultPos : FieldOf(j)[role] = expected(role)
              /\ judgments' # judgments =>
                    \A role \in DOMAIN DefaultPos :
                        FieldOf(judgments'[Len(judgments')])[role] = expected(role)]_vars

\* Under the header "S.No", "Judgment Summary" (summary at index 1) a row of
\* 5 cells with a serial number was read: date, cause and subject come from
\* the shifted defaults and the summary from cell 1, unshifted; then a row of
\* one empty cell, kept for its link, whose four texts are empty.
C13_Witness ==
    /\ scanPc = "rows"
    /\ rowIdx = 3
    /\ headerMap = [r \in {"summary"} |-> 1]
    /\ lastShift = 0
    /\ Len(judgments) = 2
    /\ FieldOf(judgments[1]) =
          [date |-> "02-03-2017", cause |-> "A vs B", subject |-> "Tax",
           summary |-> "02-03-2017"]
    /\ FieldOf(judgments[2]) = [date |-> "", cause |-> "", subject |-> "", summary |-> ""]

\* The five fields of a record, and whether one of them is non-empty
Fields ==
    {"DateOfJudgment", "CauseTitleCaseNo", "Subject", "JudgmentSummary", "PDFLink"}
SomeField(j) == \E f \in Fields : j[f] # ""

\* C14 as stated: every row of the table produces a record exactly when one
\* of the five fields read from it is non-empty.
C14_EveryRowKeptIffSomeField ==
    [][ScanRow =>
          (judgments' # judgments <=> SomeField(RowRecord(headerMap, ThisRow)))]_vars

\* C14, amended: a row that is read (any row but a first row with a
\* non-empty th, and with at least one td) appends its record exactly when
\* one of the five fields is non-empty; a row that is skipped, and a row
\* whose fields are all empty, leave the list as it was; the list only grows
\* at its end, so records keep the order of their rows; every record of the
\* list has a non-empty field; and the list at the end is the value of the
\* function Extract on the page.
C14_RetentionRule ==
    /\ [](\A n \in 1..Len(judgments) : SomeField(judgments[n]))
    /\ [](scanPc = "scanned" => judgments = Extract(scanDoc))
    /\ [][ScanRow =>
            LET j == RowRecord(headerMap, ThisRow)
            IN  IF ~Skipped /\ SomeField(j)
                THEN judgments' = Append(judgments, j)
                ELSE judgments' = judgments]_vars

\* Three rows were read after the header row: a blank row of 5 cells with a
\* link that is no PDF, dropped, between two rows that are kept, in order.
C14_Witness ==
    /\ scanPc = "scanned"
    /\ Len(sel) = 1
    /\ Len(sel[1].rows) = 3
    /\ sel[1].rows[1].td = <<>>
    /\ sel[1].rows[2] = Row(<<>>, <<" ", "", "\n", "", "">>, <<Href("about.html")>>)
    /\ sel[1].rows[3].td = <<"12", "C vs D", "Civil", "Second">>
    /\ Len(judgments) = 1
    /\ judgments[1].CauseTitleCaseNo = "C vs D"

\* The anchors of a row whose trimmed, lower-cased href ends with ".pdf" or
\* contains "view-pdf", and the trimmed href of the first of them
Matching(anchors) ==
    {i \in 1..Len(anchors) :
        /\ anchors[i].has
        /\ LET lh == ToLower(TrimSpace(anchors[i].href))
           IN  HasSuffix(lh, ".pdf") \/ Contains(lh, "view-pdf")}
FirstMatch(anchors) ==
    TrimSpace(anchors[CHOOSE i \in Matching(anchors) :
                         \A k \in Matching(anchors) : i <= k].href)

\* C15 as stated: for every row that is read, the PDF field is empty when no
\* anchor matches, and else comes from the first matching anchor alone: its
\* (trimmed) href as it is when that is absolute, and otherwise the href
\* resolved against the URL of the page, an absolute URL.
C15_AbsoluteOrResolved ==
    [][(ScanRow /\ ~Skipped) =>
          LET pdf == RowRecord(headerMap, ThisRow).PDFLink
              h == FirstMatch(ThisRow.a)
          IN  IF Matching(ThisRow.a) = {} THEN pdf = ""
              ELSE IF IsAbs(h) THEN pdf = h
              ELSE pdf = ResolveReference(h) /\ IsAbs(pdf)]_vars

\* C15, amended: as above, except that an href url.Parse rejects is returned
\* trimmed and otherwise as it is, resolved against nothing; a row without
\* matching anchor has an empty PDF field and is read like any other; and
\* the record that is appended holds that PDF field.
C15_UnparsedAsIs ==
    [][(ScanRow /\ ~Skipped) =>
          LET pdf == RowRecord(headerMap, ThisRow).PDFLink
              h == FirstMatch(ThisRow.a)
          IN  /\ IF Matching(ThisRow.a) = {} THEN pdf = ""
                 ELSE IF ParseFails(h) THEN pdf = h
                 ELSE IF IsAbs(h) THEN pdf = h
                 ELSE pdf = ResolveReference(h) /\ IsAbs(pdf)
              /\ judgments' # judgments => judgments'[Len(judgments')].PDFLink = pdf
              /\ scanPc' = "rows"]_vars

\* Two rows were read: one with a link that is no PDF, then an absolute PDF
\* link between spaces, then a relative PDF link; and one whose only anchor
\* is a relative PDF link. The first has the absolute link, trimmed, and
\* nothing of its third anchor; the second has its link resolved.
C15_Witness ==
    /\ scanPc = "rows"
    /\ rowIdx = 3
    /\ sel[1].rows[2].a =
          <<Href("notes.html"), Href(" https://x.gov/A.PDF "), Href("/docs/b.pdf")>>
    /\ sel[1].rows[3].a = <<Href("/docs/a.pdf")>>
    /\ Len(judgments) = 2
    /\ judgments[1].PDFLink = "https://x.gov/A.PDF"
    /\ judgments[2].PDFLink = "https://www.sci.gov.in/docs/a.pdf"

\* A thread is between the extraction and the return of Encode: it is about
\* to call MkdirAll and os.Create on the file of its year, or writes to it
Writing(t) == pc[t] \in {"parsed", "encode"}

\* C16: in a concurrent run no two workers are at the same time writing, or
\* about to write, the file of the same year; more, two workers that hold a
\* job at the same time hold different jobs, and the years of different jobs
\* differ, so that their output paths differ.
C16_NoWriteContention ==
    /\ \A i, j \in Jobs : i # j => years[i] # years[j]
    /\ \A w1, w2 \in Workers :
          (w1 # w2 /\ Busy(w1) /\ Busy(w2)) =>
              /\ cur[w1] # cur[w2]
              /\ years[cur[w1]] # years[cur[w2]]
    /\ \A w1, w2 \in Workers :
          (w1 # w2 /\ Writing(w1) /\ Writing(w2)) => years[cur[w1]] # years[cur[w2]]

\* Two workers have both created the file of their year and are encoding
C16_Witness ==
    /\ concurrency = 2
    /\ pc[1] = "encode"
    /\ pc[2] = "encode"
    /\ years[cur[1]] # years[cur[2]]
    /\ files[years[cur[1]]].exists
    /\ files[years[cur[2]]].exists

\* The rules of the header switch, in the order the spec gives them
Rules ==
    <<[role |-> "date", words |-> {"date"}],
      [role |-> "cause", words |-> {"cause", "case", "title"}],
      [role |-> "subject", words |-> {"subject"}],
      [role |-> "summary", words |-> {"summary"}],
      [role |-> "pdf", words |-> {"view", "pdf"}]>>
Satisfied(lower) ==
    {k \in 1..Len(Rules) : \E word \in Rules[k].words : Contains(lower, word)}

\* C17: the callback on a header cell changes at most one entry of the map:
\* none when the trimmed text is empty or satisfies no rule, and else the
\* entry of the earliest rule, in the order date, cause, subject, summary,
\* pdf, that the lower-cased text satisfies, which becomes the index of the
\* cell; and once the header row is read the map is the value of the function
\* HeaderMap on that row, as hasHeader is of HasHeader, and stays so while
\* the rows are read.
C17_FirstRuleWins ==
    /\ []((scanPc \in {"rows", "scanned"} /\ Len(sel) = 1) =>
              /\ headerMap = HeaderMap(sel[1].rows)
              /\ hasHeader = HasHeader(sel[1].rows))
    /\ [][ScanHeaderCell =>
            LET hit == Satisfied(HeaderLower)
                first == CHOOSE k \in hit : \A n \in hit : k <= n
            IN  IF hit = {} THEN headerMap' = headerMap
                ELSE /\ DOMAIN headerMap' = DOMAIN headerMap \cup {Rules[first].role}
                     /\ headerMap'[Rules[first].role] = thIdx
                     /\ \A r \in DOMAIN headerMap \ {Rules[first].role} :
                           headerMap'[r] = headerMap[r]]_vars

\* The header "Subject Title", "View Summary" was read: the first cell went
\* to cause, not subject, and the second to summary, not pdf.
C17_Witness ==
    /\ scanPc = "rows"
    /\ HeaderThs = <<"Subject Title", "View Summary">>
    /\ headerMap = [r \in {"cause", "summary"} |-> IF r = "cause" THEN 0 ELSE 1]

\* The jobs in progress: being attempted, or waiting out a retry delay
InProgress == {j \in Jobs : jobState[j] \in {"Attempting", "Sleeping"}}

\* C18: in a concurrent run at most C jobs are in progress at any time; the
\* jobs in progress are those held by the workers that are inside their
\* retry loop, one job per worker and one worker per job; and a worker gets
\* another job, or lets go of its job, only when that job is Succeeded or
\* Abandoned.
C18_PoolBoundedByC ==
    /\ [](Cardinality(InProgress) <= concurrency)
    /\ [](InProgress = {cur[w] : w \in {v \in Workers : Busy(v)}})
    /\ [](\A w1, w2 \in Workers : (w1 # w2 /\ Busy(w1) /\ Busy(w2)) => cur[w1] # cur[w2])
    /\ [][\A w \in Workers :
            (cur'[w] # cur[w] /\ cur[w] # 0) => jobState[cur[w]] \in Terminal]_vars

\* Three jobs for two workers: the first job is over, the two others are in
\* progress, each with one of the workers, one attempting and one sleeping.
C18_Witness ==
    /\ concurrency = 2
    /\ Len(years) = 3
    /\ jobState[1] \in Terminal
    /\ InProgress = {2, 3}
    /\ {cur[1], cur[2]} = {2, 3}
    /\ \E w \in Workers : pc[w] = "sleep"

\* The run is over: the producer has sent every job once and closed the
\* channel, every worker has left its loop, every job is Succeeded or
\* Abandoned and wg.Wait has returned
RunOver ==
    /\ mainPc = "done"
    /\ producer = "closed"
    /\ next = Len(years) + 1
    /\ wg = 0
    /\ \A w \in Workers : pc[w] = "exited"
    /\ \A j \in Jobs : jobState[j] \in Terminal /\ delivered[j] = 1

\* C19: under fair scheduling every concurrent run, whatever C > 1, R and
\* the list of years (empty, shorter than C, longer than C), reaches the
\* state where all jobs were sent and are over, the channel is closed, all
\* workers have exited and wg.Wait has returned, and stays there; so no
\* worker waits at the channel for ever and no send blocks for ever.
C19_RunTerminates == <>[]RunOver

\* A run of two workers over one year has ended: one worker had the job,
\* the other never got one and left when the channel was closed.
C19_Witness ==
    /\ RunOver
    /\ concurrency = 2
    /\ Len(years) = 1
    /\ delivered[1] = 1
    /\ jobState[1] = "Abandoned"
    /\ finished[1] = retries + 1

====
